---------------------------- MODULE Spec2Model ----------------------------
(***************************************************************************)
(* A model of pysmiles/smiles_helper.py: the valence model, bond           *)
(* accounting, hydrogen / bond-order completion, explicit hydrogen         *)
(* insertion and removal, and the aromaticity engine.                      *)
(*                                                                         *)
(* A molecule is a record [nodes, edges]: nodes maps a node key to its     *)
(* attribute dictionary, edges maps a bond {u, v} to its attribute         *)
(* dictionary.  A dictionary is a function from attribute names to values; *)
(* an attribute that is absent is absent from the function's domain.       *)
(*                                                                         *)
(* Bond orders are kept in HALF UNITS so that the aromatic order 1.5 is an *)
(* integer: order 1 is 2, 1.5 is 3, 2 is 4 and 3 is 6.  Every quantity     *)
(* that Python adds to a bond order (hcount, valence) is doubled where it  *)
(* meets one.                                                              *)
(***************************************************************************)
EXTENDS Integers, FiniteSets, Sequences, TLC

VARIABLES
    mol,            \* the molecule the operations mutate in place
    mol0,           \* the molecule as it was when the current call started
    pc,             \* position of the current call
    call,           \* the current call: its name and arguments
    missing_bonds,  \* increment_bond_orders: the local budget dictionary
    pending,        \* bonds / components the running loop has not visited yet
    visited,        \* bonds / components the running loop has visited
    raised,         \* the exception the call ended with, or "none"
    atom,           \* valence: the atom dictionary passed in
    val,            \* valence: what the call returned
    ncalls          \* the number of calls made so far

vars ==
    <<mol, mol0, pc, call, missing_bonds, pending, visited, raised, atom, val,
      ncalls>>

-----------------------------------------------------------------------------
(* Bounds of the model.                                                    *)

\* valence is applied to every charge in -MaxCharge .. MaxCharge
MaxCharge == 4

\* atoms of the molecules the completion operations start from
MaxAtoms == 2

\* calls made in a row on one molecule
MaxCalls == 2

\* atoms of the molecules increment_bond_orders is stepped through
IncAtoms == 3

\* atoms of the molecules the explicit-hydrogen round trip starts from
HydAtoms == 2

\* atoms of the molecules mark_aromatic_edges is applied to
EdgeAtoms == 3

\* atoms of the molecules the aromaticity engine is stepped through
AromAtoms == 5

-----------------------------------------------------------------------------
(* Python dictionaries.                                                    *)

EmptyDict == [k \in {} |-> 0]

Get(d, k, default) == IF k \in DOMAIN d THEN d[k] ELSE default

Put(d, k, v) == [x \in (DOMAIN d) \cup {k} |-> IF x = k THEN v ELSE d[x]]

Del(d, k) == [x \in (DOMAIN d) \ {k} |-> d[x]]

Max2(a, b) == IF a >= b THEN a ELSE b

Min2(a, b) == IF a <= b THEN a ELSE b

RECURSIVE SumSeq(_)
SumSeq(s) == IF s = <<>> THEN 0 ELSE Head(s) + SumSeq(Tail(s))

-----------------------------------------------------------------------------
(* The valence model.                                                      *)

ORBITAL_SIZES ==
    << <<2>>, <<2, 6>>, <<2, 6>>, <<2, 10, 6>>, <<2, 10, 6>>, <<2, 14, 10, 6>> >>

ELECTRON_COUNTS ==
    [H |-> 1, B |-> 5, C |-> 6, N |-> 7, O |-> 8, F |-> 9, P |-> 15,
     S |-> 16, Cl |-> 17, As |-> 33, Se |-> 34, Br |-> 35, I |-> 53]

\* str.capitalize on the element symbols the model uses
capitalize(s) ==
    CASE s = "b" -> "B" [] s = "c" -> "C" [] s = "n" -> "N" [] s = "o" -> "O"
      [] s = "p" -> "P" [] s = "s" -> "S" [] s = "se" -> "Se" [] s = "as" -> "As"
      [] OTHER -> s

\* The shell-filling loop of valence: starting at shell idx (1-based) with
\* `electrons` left, the shell at which the loop breaks and the electrons left
\* there; idx = Len(ORBITAL_SIZES) + 1 when the loop ends without a break.
RECURSIVE FillShells(_, _)
FillShells(idx, electrons) ==
    IF idx > Len(ORBITAL_SIZES)
    THEN [idx |-> idx, electrons |-> electrons]
    ELSE IF SumSeq(ORBITAL_SIZES[idx]) <= electrons
         THEN FillShells(idx + 1, electrons - SumSeq(ORBITAL_SIZES[idx]))
         ELSE [idx |-> idx, electrons |-> electrons]

\* valence(atom): [raised, val].  raised is "none" when the list val is
\* returned, "ValueError" for the too-many-electrons error, "IndexError" when
\* ORBITAL_SIZES[idx+1] is read past the end of the table.
valence(a) ==
    LET electrons0 == Get(ELECTRON_COUNTS, capitalize(Get(a, "element", "*")), 0)
                        - Get(a, "charge", 0)
        f == FillShells(1, electrons0)
    IN  IF f.idx > Len(ORBITAL_SIZES)
        THEN [raised |-> "ValueError", val |-> <<>>]
        ELSE LET shell_size == SumSeq(ORBITAL_SIZES[f.idx])
                 to_assign1 == Min2(f.electrons, shell_size \div 2)
                 electrons1 == f.electrons - to_assign1
                 to_assign2 == Min2(electrons1, shell_size \div 2)
                 electron_pairs == to_assign2
                 single_electrons == to_assign1 - to_assign2
                 electrons2 == electrons1 - to_assign2
             IN  IF electrons2 # 0
                 THEN [raised |-> "AssertionError", val |-> <<>>]
                 ELSE IF f.idx + 1 > Len(ORBITAL_SIZES)
                 THEN [raised |-> "IndexError", val |-> <<>>]
                 ELSE IF Len(ORBITAL_SIZES[f.idx + 1]) >= 3
                 THEN [raised |-> "none",
                       val |-> [n \in 1..(electron_pairs + 1) |->
                                   single_electrons + 2 * (n - 1)]]
                 ELSE [raised |-> "none", val |-> <<single_electrons>>]

-----------------------------------------------------------------------------
(* Molecules (networkx graphs with attribute dictionaries).                *)

Nodes(m) == DOMAIN m.nodes

Edges(m) == DOMAIN m.edges

\* mol[n]: the neighbours of n
Neighbors(m, n) == {x \in Nodes(m) : {n, x} \in Edges(m)}

\* mol.edges(nbunch=n): the bonds incident to n
IncidentEdges(m, n) == {e \in Edges(m) : n \in e}

\* mol.edges[e].get('order', 1), in half units
EdgeOrder(m, e) == Get(m.edges[e], "order", 2)

SetNodeAttr(m, n, k, v) ==
    [m EXCEPT !.nodes = [@ EXCEPT ![n] = Put(@, k, v)]]

SetEdgeAttr(m, e, k, v) ==
    [m EXCEPT !.edges = [@ EXCEPT ![e] = Put(@, k, v)]]

\* mol.subgraph(ns): the subgraph induced by the nodes ns
subgraph(m, ns) ==
    [nodes |-> [n \in (Nodes(m) \cap ns) |-> m.nodes[n]],
     edges |-> [e \in {e \in Edges(m) : e \subseteq ns} |-> m.edges[e]]]

RECURSIVE SumOrders(_, _)
SumOrders(m, es) ==
    IF es = {} THEN 0
    ELSE LET e == CHOOSE e \in es : TRUE
         IN  EdgeOrder(m, e) + SumOrders(m, es \ {e})

-----------------------------------------------------------------------------
(* Bond accounting.  Results that Python computes from bond orders are in  *)
(* half units where the comment says so.                                   *)

\* _bonds(mol, node_idx, use_order), in half units
_bonds(m, n, use_order) ==
    IF use_order THEN SumOrders(m, IncidentEdges(m, n))
    ELSE 2 * Cardinality(Neighbors(m, n))

\* `[v for v in val if v >= bonds] or [0]`, then `[0]` of it (bonds in half
\* units, the result in whole units)
FirstValenceAtLeast(vs, bonds) ==
    LET ok == SelectSeq(vs, LAMBDA v : 2 * v >= bonds)
    IN  IF ok = <<>> THEN 0 ELSE ok[1]

\* bonds_missing(mol, node_idx, use_order): int(max(val[0] - bonds, 0)); int()
\* truncates the half a 1.5 bond leaves
bonds_missing(m, n, use_order) ==
    LET bonds == _bonds(m, n, use_order) + 2 * Get(m.nodes[n], "hcount", 0)
        v0 == FirstValenceAtLeast(valence(m.nodes[n]).val, bonds)
    IN  Max2(2 * v0 - bonds, 0) \div 2

\* has_default_h_count(mol, node_idx, use_order): max(val[0] - bonds, 0) == hcount
has_default_h_count(m, n, use_order) ==
    LET bonds == _bonds(m, n, use_order)
        v0 == FirstValenceAtLeast(valence(m.nodes[n]).val, bonds)
    IN  Max2(2 * v0 - bonds, 0) = 2 * Get(m.nodes[n], "hcount", 0)

-----------------------------------------------------------------------------
(* Bond-order incrementing.                                                *)

\* lines 587-589: the budget dictionary, from the unmodified molecule
InitialMissing(m) == [n \in Nodes(m) |-> Max2(bonds_missing(m, n, TRUE), 0)]

\* lines 592-602: one iteration of the loop over the bonds, on the pair
\* [mol, missing] of the molecule and the budget dictionary
IncrementEdge(st, e, max_bond_order) ==
    LET idx == CHOOSE x \in e : TRUE
        jdx == CHOOSE x \in e : x # idx
        edge_missing == Min2(st.missing[idx], st.missing[jdx])
        current_order == EdgeOrder(st.mol, e)
        new_order == Min2(2 * edge_missing + current_order, 2 * max_bond_order)
    IN  IF current_order = 3
        THEN st
        ELSE [mol |-> SetEdgeAttr(st.mol, e, "order", new_order),
              missing |-> [st.missing EXCEPT ![idx] = @ - edge_missing,
                                             ![jdx] = @ - edge_missing]]

\* The loop over the bonds in every order `molecule.edges` can have.  A
\* frontier is a set of [st, rest]: the pair st reached and the bonds left.
RECURSIVE IncrementLoop(_, _)
IncrementLoop(frontier, max_bond_order) ==
    IF \A x \in frontier : x.rest = {}
    THEN {x.st.mol : x \in frontier}
    ELSE IncrementLoop(
           UNION {{[st |-> IncrementEdge(x.st, e, max_bond_order),
                    rest |-> x.rest \ {e}] : e \in x.rest} : x \in frontier},
           max_bond_order)

\* increment_bond_orders(molecule, max_bond_order): the molecules it can leave
increment_bond_orders(m, max_bond_order) ==
    IncrementLoop({[st |-> [mol |-> m, missing |-> InitialMissing(m)],
                    rest |-> Edges(m)]}, max_bond_order)

-----------------------------------------------------------------------------
(* Hydrogen completion.                                                    *)

\* lines 323-328: the loop over the atoms.  An atom's new hcount depends on its
\* own attributes and bonds only, so the loop is a map over the atoms.
FillHcounts(m, respect_hcount) ==
    [m EXCEPT !.nodes =
        [n \in Nodes(m) |->
            IF "hcount" \in DOMAIN m.nodes[n] /\ respect_hcount
            THEN m.nodes[n]
            ELSE Put(m.nodes[n], "hcount",
                     Get(m.nodes[n], "hcount", 0)
                       + Max2(bonds_missing(m, n, TRUE), 0))]]

\* fill_valence(mol, respect_hcount, respect_bond_order, max_bond_order): the
\* molecules it can leave
fill_valence(m, respect_hcount, respect_bond_order, max_bond_order) ==
    IF respect_bond_order
    THEN {FillHcounts(m, respect_hcount)}
    ELSE {FillHcounts(m2, respect_hcount) :
            m2 \in increment_bond_orders(m, max_bond_order)}

-----------------------------------------------------------------------------
(* Explicit hydrogens.                                                     *)

MaxOf(S) == CHOOSE x \in S : \A y \in S : y <= x

MinOf(S) == CHOOSE x \in S : \A y \in S : x <= y

\* lines 242-244: parse_atom('[H]') without its 'hcount'
h_atom == [element |-> "H", charge |-> 0, aromatic |-> FALSE]

\* AddHydrogensTo without lines 251-252: the atom keeps its 'hcount'
AddHydrogensKeepingHcount(m, n_idx) ==
    LET hcount == Get(m.nodes[n_idx], "hcount", 0)
        idxs == (MaxOf(Nodes(m)) + 1)..(MaxOf(Nodes(m)) + hcount)
    IN  [nodes |-> [n \in Nodes(m) \cup idxs |->
                      IF n \in idxs THEN h_atom ELSE m.nodes[n]],
         edges |-> [e \in Edges(m) \cup {{n_idx, jdx} : jdx \in idxs} |->
                      IF e \in Edges(m) THEN m.edges[e] ELSE [order |-> 2]]]

\* lines 246-252: the body of the loop, for the atom n_idx
AddHydrogensTo(m, n_idx) ==
    LET hcount == Get(m.nodes[n_idx], "hcount", 0)
        idxs == (MaxOf(Nodes(m)) + 1)..(MaxOf(Nodes(m)) + hcount)
    IN  [nodes |-> [n \in Nodes(m) \cup idxs |->
                      IF n \in idxs THEN h_atom
                      ELSE IF n = n_idx THEN Del(m.nodes[n], "hcount")
                      ELSE m.nodes[n]],
         edges |-> [e \in Edges(m) \cup {{n_idx, jdx} : jdx \in idxs} |->
                      IF e \in Edges(m) THEN m.edges[e] ELSE [order |-> 2]]]

\* line 245: the loop over list(mol.nodes), the atoms the molecule had when the
\* call started, in the order of their keys
RECURSIVE AddHydrogensLoop(_, _)
AddHydrogensLoop(m, todo) ==
    IF todo = {} THEN m
    ELSE AddHydrogensLoop(AddHydrogensTo(m, MinOf(todo)), todo \ {MinOf(todo)})

\* add_explicit_hydrogens(mol)
add_explicit_hydrogens(m) == AddHydrogensLoop(m, Nodes(m))

\* lines 279-287: whether the loop puts n_idx in to_remove
IsSimpleHydrogen(m, n_idx) ==
    LET node == m.nodes[n_idx]
        neighbors == Neighbors(m, n_idx)
    IN  /\ Get(node, "charge", 0) = 0
        /\ Get(node, "element", "") = "H"
        /\ "isotope" \notin DOMAIN node
        /\ Get(node, "class", 0) = 0
        /\ Cardinality(neighbors) = 1
        /\ LET neighbor == CHOOSE x \in neighbors : TRUE
           IN  ~ (\/ Get(m.nodes[neighbor], "element", "") = "H"
                  \/ EdgeOrder(m, {n_idx, neighbor}) # 2)

\* remove_explicit_hydrogens(mol).  The test of lines 279-286 reads no hcount,
\* so the hcount an atom ends the first loop with is the one it had plus the
\* number of its neighbours in to_remove.
remove_explicit_hydrogens(m) ==
    LET to_remove == {n \in Nodes(m) : IsSimpleHydrogen(m, n)}
        removed(n) == Cardinality(Neighbors(m, n) \cap to_remove)
        counted == [n \in Nodes(m) |->
                      IF removed(n) > 0
                      THEN Put(m.nodes[n], "hcount",
                               Get(m.nodes[n], "hcount", 0) + removed(n))
                      ELSE m.nodes[n]]
        kept == Nodes(m) \ to_remove
    IN  [nodes |-> [n \in kept |->
                      IF "hcount" \in DOMAIN counted[n] THEN counted[n]
                      ELSE Put(counted[n], "hcount", 0)],
         edges |-> [e \in {e \in Edges(m) : e \subseteq kept} |-> m.edges[e]]]

-----------------------------------------------------------------------------
(* Graph algorithms of the graph library.                                  *)

\* The nodes reachable from the nodes `seen` along the bonds es
RECURSIVE Reach(_, _)
Reach(seen, es) ==
    LET more == seen \cup UNION {e \in es : e \cap seen # {}}
    IN  IF more = seen THEN seen ELSE Reach(more, es)

\* nx.connected_components(G), as the set of the components' node sets
connected_components(g) == {Reach({n}, Edges(g)) : n \in Nodes(g)}

IsMatching(es) == \A e1 \in es : \A e2 \in es : e1 # e2 => e1 \cap e2 = {}

Matchings(g) == {es \in SUBSET Edges(g) : IsMatching(es)}

\* max_weight_matching returning a matching that is only maximal: one that no
\* bond can be added to
MaximalMatching(g) ==
    LET ms == Matchings(g)
    IN  {es \in ms : \A e \in Edges(g) \ es : (es \cup {e}) \notin ms}

\* nx.max_weight_matching(G): every bond weighs 1, so a matching of greatest
\* weight is one with the most bonds; the set of those it can return
max_weight_matching(g) ==
    LET ms == Matchings(g)
        most == MaxOf({Cardinality(es) : es \in ms})
    IN  {es \in ms : Cardinality(es) = most}

\* nx.is_perfect_matching(G, matching)
is_perfect_matching(g, matching) ==
    /\ matching \subseteq Edges(g)
    /\ IsMatching(matching)
    /\ UNION matching = Nodes(g)

\* The spanning trees of a connected graph, as sets of bonds
SpanningTrees(g) ==
    {t \in SUBSET Edges(g) :
        /\ Cardinality(t) = Cardinality(Nodes(g)) - 1
        /\ \A n \in Nodes(g) : Reach({n}, t) = Nodes(g)}

\* The nodes of the path from u to v in the tree t
TreePath(t, u, v) ==
    {u, v} \cup {w \in (UNION t) \ {u, v} :
                    v \notin Reach({u}, {e \in t : w \notin e})}

\* nx.cycle_basis(G) for a connected graph: the fundamental cycles of the
\* spanning tree t, each as the set of its nodes
cycle_basis(g, t) ==
    {TreePath(t, MinOf(e), MaxOf(e)) : e \in Edges(g) \ t}

-----------------------------------------------------------------------------
(* The aromaticity engine.                                                 *)

\* _prune_nodes with line 467 reading `missing >= 0`
PruneNodesKeepingSaturated(nodes, m) ==
    {node \in nodes :
        \/ Get(m.nodes[node], "element", "*") = "*"
        \/ bonds_missing(m, node, TRUE) >= 0}

\* _prune_nodes(nodes, mol): the nodes of the subgraph it returns
_prune_nodes(nodes, m) ==
    {node \in nodes :
        \/ Get(m.nodes[node], "element", "*") = "*"
        \/ bonds_missing(m, node, TRUE) > 0}

\* mark_aromatic_atoms without line 496
NoResetAromatic(m) == m

\* line 496: nx.set_node_attributes(mol, False, 'aromatic')
ResetAromatic(m) ==
    [m EXCEPT !.nodes = [n \in Nodes(m) |-> Put(m.nodes[n], "aromatic", FALSE)]]

\* lines 512-524: what the loop body does to mol for the component sub_ds once
\* its matching max_match is found perfect; cycles is its cycle basis
MarkComponent(m, sub_ds, max_match, cycles) ==
    LET nodes_in_cycles == UNION cycles
        m1 == [m EXCEPT !.nodes =
                 [n \in Nodes(m) |->
                    IF n \in nodes_in_cycles THEN Put(m.nodes[n], "aromatic", TRUE)
                    ELSE IF n \in sub_ds THEN Put(m.nodes[n], "aromatic", FALSE)
                    ELSE m.nodes[n]]]
    IN  [m1 EXCEPT !.edges =
           [e \in Edges(m) |->
              IF e \in max_match /\ e \cap nodes_in_cycles = {}
              THEN Put(m.edges[e], "order", 4)
              ELSE m.edges[e]]]

\* lines 498-524: one iteration of the loop, for the component sub_ds of the
\* molecule m: the pairs [mol, raised] it can leave, one for every matching and
\* every cycle basis the library can return
MarkStep(m, sub_ds) ==
    LET g == subgraph(m, sub_ds)
    IN  UNION {
          IF ~ is_perfect_matching(g, max_match)
          THEN {[mol |-> m, raised |-> "SyntaxError"]}
          ELSE {[mol |-> MarkComponent(m, sub_ds, max_match, cycle_basis(g, t)),
                 raised |-> "none"] : t \in SpanningTrees(g)}
          : max_match \in max_weight_matching(g)}

\* The loop over the components in every order they can come in.  A frontier
\* is a set of [mol, raised, rest]: the molecule reached, the exception raised
\* and the components left; the loop stops at the first exception.
RECURSIVE MarkLoop(_)
MarkLoop(frontier) ==
    IF \A x \in frontier : x.rest = {} \/ x.raised # "none"
    THEN {[mol |-> x.mol, raised |-> x.raised] : x \in frontier}
    ELSE MarkLoop(
           UNION {IF x.rest = {} \/ x.raised # "none" THEN {x}
                  ELSE UNION {{[mol |-> r.mol, raised |-> r.raised,
                                rest |-> x.rest \ {sub_ds}] :
                                 r \in MarkStep(x.mol, sub_ds)} :
                              sub_ds \in x.rest}
                  : x \in frontier})

\* mark_aromatic_atoms(mol, atoms): the pairs [mol, raised] it can end with
mark_aromatic_atoms(m, atoms) ==
    MarkLoop({[mol |-> ResetAromatic(m), raised |-> "none",
               rest |-> connected_components(subgraph(m, _prune_nodes(atoms, m)))]})

\* line 542: mol.nodes[node].get('aromatic', 'False'), as the truth value `all`
\* gives it: the default is the non-empty string 'False', which is true
AromaticTruth(node) ==
    IF "aromatic" \in DOMAIN node THEN node["aromatic"] ELSE TRUE

\* mark_aromatic_edges(mol)
mark_aromatic_edges(m) ==
    [m EXCEPT !.edges =
       [e \in Edges(m) |->
          IF \A node \in e : AromaticTruth(m.nodes[node])
          THEN Put(m.edges[e], "order", 3)
          ELSE IF "order" \notin DOMAIN m.edges[e]
          THEN Put(m.edges[e], "order", 2)
          ELSE m.edges[e]]]

\* correct_aromatic_rings(mol): the pairs [mol, raised] it can end with
correct_aromatic_rings(m) ==
    UNION {
      {IF r.raised = "none"
       THEN [mol |-> mark_aromatic_edges(r.mol), raised |-> "none"]
       ELSE r : r \in mark_aromatic_atoms(filled, Nodes(filled))}
      : filled \in fill_valence(m, TRUE, TRUE, 3)}

-----------------------------------------------------------------------------
(* The molecules the specifications start from.                            *)

\* Every molecule with the atoms 1..n, each atom's dictionary from atoms, and
\* any bonds among the pairs `pairs`, each bond's dictionary from bonds
Molecules(n, atoms, pairs, bonds) ==
    {[nodes |-> ns, edges |-> es] :
        ns \in [1..n -> atoms],
        es \in UNION {[ps -> bonds] : ps \in SUBSET pairs}}

AllPairs(n) == {{i, j} : i \in 1..n, j \in 1..n} \ {{i} : i \in 1..n}

\* Atom dictionaries as parse_atom returns them, for the tokens
\* C, N, S, *, [H], [CH2], and the dictionary of the explicit hydrogens that
\* add_explicit_hydrogens makes
ParsedAtoms ==
    {[element |-> "C", charge |-> 0, aromatic |-> FALSE],
     [element |-> "N", charge |-> 0, aromatic |-> FALSE],
     [element |-> "S", charge |-> 0, aromatic |-> FALSE],
     [charge |-> 0, hcount |-> 0, aromatic |-> FALSE],
     [element |-> "H", charge |-> 0, hcount |-> 0, aromatic |-> FALSE],
     [element |-> "C", charge |-> 0, hcount |-> 2, aromatic |-> FALSE],
     h_atom}

\* Bond dictionaries: no order, and the orders 1, 1.5, 2 and 3
BondDicts == {EmptyDict, [order |-> 2], [order |-> 3], [order |-> 4], [order |-> 6]}

MaxBondOrders == 1..3

NoCall == [name |-> "none"]

Idle ==
    /\ mol0 = mol
    /\ pc = "idle"
    /\ call = NoCall
    /\ missing_bonds = EmptyDict
    /\ pending = {}
    /\ visited = {}
    /\ raised = "none"
    /\ ncalls = 0

-----------------------------------------------------------------------------
(* The valence model applied to one atom.                                  *)

InitValence ==
    /\ atom \in {[element |-> el, charge |-> c] :
                    el \in DOMAIN ELECTRON_COUNTS, c \in (-MaxCharge)..MaxCharge}
                \cup {[charge |-> c] : c \in (-MaxCharge)..MaxCharge}
    /\ val = [raised |-> "none", val |-> <<>>]
    /\ mol = [nodes |-> EmptyDict, edges |-> EmptyDict]
    /\ Idle

Valence ==
    /\ pc = "idle"
    /\ val' = valence(atom)
    /\ pc' = "done"
    /\ UNCHANGED <<mol, mol0, call, missing_bonds, pending, visited, raised,
                   atom, ncalls>>

NextValence == Valence

SpecValence == InitValence /\ [][NextValence]_vars

-----------------------------------------------------------------------------
(* The core operations called in a row on one molecule.                    *)

Init ==
    /\ mol \in UNION {Molecules(n, ParsedAtoms, AllPairs(n), BondDicts) :
                        n \in 1..MaxAtoms}
    /\ atom = EmptyDict
    /\ val = [raised |-> "none", val |-> <<>>]
    /\ Idle

\* A whole call that leaves the molecule m2 and ends with the exception r
Called(c, m2, r) ==
    /\ ncalls < MaxCalls
    /\ mol' = m2
    /\ mol0' = mol
    /\ call' = c
    /\ raised' = r
    /\ pc' = "returned"
    /\ ncalls' = ncalls + 1
    /\ UNCHANGED <<missing_bonds, pending, visited, atom, val>>

FillValence ==
    \E respect_hcount \in BOOLEAN, respect_bond_order \in BOOLEAN,
       max_bond_order \in MaxBondOrders :
      \E m2 \in fill_valence(mol, respect_hcount, respect_bond_order,
                             max_bond_order) :
        Called([name |-> "fill_valence", respect_hcount |-> respect_hcount,
                respect_bond_order |-> respect_bond_order,
                max_bond_order |-> max_bond_order], m2, "none")

IncrementBondOrders ==
    \E max_bond_order \in MaxBondOrders :
      \E m2 \in increment_bond_orders(mol, max_bond_order) :
        Called([name |-> "increment_bond_orders",
                max_bond_order |-> max_bond_order], m2, "none")

AddExplicitHydrogens ==
    Called([name |-> "add_explicit_hydrogens"], add_explicit_hydrogens(mol),
           "none")

RemoveExplicitHydrogens ==
    Called([name |-> "remove_explicit_hydrogens"],
           remove_explicit_hydrogens(mol), "none")

CorrectAromaticRings ==
    \E r \in correct_aromatic_rings(mol) :
      Called([name |-> "correct_aromatic_rings"], r.mol, r.raised)

Next ==
    \/ FillValence
    \/ IncrementBondOrders
    \/ AddExplicitHydrogens
    \/ RemoveExplicitHydrogens
    \/ CorrectAromaticRings

Spec == Init /\ [][Next]_vars

-----------------------------------------------------------------------------
(* increment_bond_orders, one bond at a time.                              *)

InitIncrement ==
    /\ mol \in Molecules(IncAtoms,
                         {[element |-> "C", charge |-> 0, aromatic |-> FALSE],
                          [element |-> "N", charge |-> 0, aromatic |-> FALSE]},
                         AllPairs(IncAtoms),
                         {EmptyDict, [order |-> 3], [order |-> 6]})
    /\ atom = EmptyDict
    /\ val = [raised |-> "none", val |-> <<>>]
    /\ Idle

\* lines 587-589
IncStart ==
    /\ pc = "idle"
    /\ \E max_bond_order \in MaxBondOrders :
         call' = [name |-> "increment_bond_orders",
                  max_bond_order |-> max_bond_order]
    /\ missing_bonds' = InitialMissing(mol)
    /\ pending' = Edges(mol)
    /\ visited' = {}
    /\ mol0' = mol
    /\ pc' = "loop"
    /\ UNCHANGED <<mol, raised, atom, val, ncalls>>

\* lines 591-602, for the next bond of molecule.edges
IncEdge ==
    /\ pc = "loop"
    /\ \E e \in pending :
         LET st == IncrementEdge([mol |-> mol, missing |-> missing_bonds], e,
                                 call.max_bond_order)
         IN  /\ mol' = st.mol
             /\ missing_bonds' = st.missing
             /\ pending' = pending \ {e}
             /\ visited' = visited \cup {e}
    /\ UNCHANGED <<mol0, pc, call, raised, atom, val, ncalls>>

IncReturn ==
    /\ pc = "loop"
    /\ pending = {}
    /\ pc' = "returned"
    /\ UNCHANGED <<mol, mol0, call, missing_bonds, pending, visited, raised,
                   atom, val, ncalls>>

NextIncrement == IncStart \/ IncEdge \/ IncReturn

SpecIncrement == InitIncrement /\ [][NextIncrement]_vars

-----------------------------------------------------------------------------
(* mark_aromatic_edges applied to a molecule.                              *)

InitEdges ==
    /\ mol \in Molecules(EdgeAtoms,
                         {[element |-> "C"],
                          [element |-> "C", aromatic |-> TRUE],
                          [element |-> "C", aromatic |-> FALSE]},
                         AllPairs(EdgeAtoms), BondDicts)
    /\ atom = EmptyDict
    /\ val = [raised |-> "none", val |-> <<>>]
    /\ Idle

MarkAromaticEdges ==
    /\ pc = "idle"
    /\ mol' = mark_aromatic_edges(mol)
    /\ mol0' = mol
    /\ call' = [name |-> "mark_aromatic_edges"]
    /\ pc' = "returned"
    /\ UNCHANGED <<missing_bonds, pending, visited, raised, atom, val, ncalls>>

NextEdges == MarkAromaticEdges

SpecEdges == InitEdges /\ [][NextEdges]_vars

-----------------------------------------------------------------------------
(* add_explicit_hydrogens followed by remove_explicit_hydrogens.           *)

\* The atoms C, [CH2], [*H], the explicit hydrogen of add_explicit_hydrogens,
\* [2H], [H+], and a hydrogen that carries a hydrogen
HydrogenAtoms ==
    {[element |-> "C", charge |-> 0, aromatic |-> FALSE],
     [element |-> "C", charge |-> 0, hcount |-> 2, aromatic |-> FALSE],
     [charge |-> 0, hcount |-> 1, aromatic |-> FALSE],
     h_atom,
     [element |-> "H", isotope |-> 2, charge |-> 0, hcount |-> 0,
      aromatic |-> FALSE],
     [element |-> "H", charge |-> 1, hcount |-> 0, aromatic |-> FALSE],
     [element |-> "H", charge |-> 0, hcount |-> 1, aromatic |-> FALSE]}

InitHydrogens ==
    /\ mol \in UNION {Molecules(n, HydrogenAtoms, AllPairs(n),
                                {EmptyDict, [order |-> 2], [order |-> 4]}) :
                        n \in 1..HydAtoms}
    /\ atom = EmptyDict
    /\ val = [raised |-> "none", val |-> <<>>]
    /\ Idle

AddHydrogens ==
    /\ pc = "idle"
    /\ mol' = add_explicit_hydrogens(mol)
    /\ mol0' = mol
    /\ call' = [name |-> "add_explicit_hydrogens"]
    /\ pc' = "added"
    /\ UNCHANGED <<missing_bonds, pending, visited, raised, atom, val, ncalls>>

RemoveHydrogens ==
    /\ pc = "added"
    /\ mol' = remove_explicit_hydrogens(mol)
    /\ call' = [name |-> "remove_explicit_hydrogens"]
    /\ pc' = "removed"
    /\ UNCHANGED <<mol0, missing_bonds, pending, visited, raised, atom, val,
                   ncalls>>

NextHydrogens == AddHydrogens \/ RemoveHydrogens

SpecHydrogens == InitHydrogens /\ [][NextHydrogens]_vars

-----------------------------------------------------------------------------
(* The aromaticity engine, one delocalized component at a time.            *)

\* Molecules of wildcard atoms (*) and aromatic nitrogens (n) whose bonds join
\* atoms at most two keys apart; the bond {1, 2} may be a double bond
InitAromatic ==
    /\ \E m \in Molecules(AromAtoms,
                          {[charge |-> 0, hcount |-> 0, aromatic |-> FALSE],
                           [element |-> "N", charge |-> 0, aromatic |-> TRUE]},
                          {e \in AllPairs(AromAtoms) : MaxOf(e) - MinOf(e) <= 2},
                          {EmptyDict}) :
         \/ mol = m
         \/ /\ {1, 2} \in Edges(m)
            /\ mol = SetEdgeAttr(m, {1, 2}, "order", 4)
    /\ atom = EmptyDict
    /\ val = [raised |-> "none", val |-> <<>>]
    /\ Idle

\* lines 488-496 of mark_aromatic_atoms(m, atoms)
MarkStart(name, m, atoms) ==
    /\ mol0' = m
    /\ mol' = ResetAromatic(m)
    /\ pending' = connected_components(subgraph(m, _prune_nodes(atoms, m)))
    /\ visited' = {}
    /\ call' = [name |-> name, atoms |-> atoms]
    /\ pc' = "loop"
    /\ UNCHANGED <<missing_bonds, raised, atom, val, ncalls>>

\* mark_aromatic_atoms(mol) and mark_aromatic_atoms(mol, atoms)
MarkAromaticAtoms ==
    /\ pc = "idle"
    /\ \E atoms \in {Nodes(mol), Nodes(mol) \ {MaxOf(Nodes(mol))}} :
         MarkStart("mark_aromatic_atoms", mol, atoms)

\* lines 562-563 of correct_aromatic_rings
CorrectStart ==
    /\ pc = "idle"
    /\ \E filled \in fill_valence(mol, TRUE, TRUE, 3) :
         MarkStart("correct_aromatic_rings", filled, Nodes(filled))

\* lines 498-524, for the next component
MarkNext ==
    /\ pc = "loop"
    /\ \E sub_ds \in pending :
         \E r \in MarkStep(mol, sub_ds) :
           IF r.raised # "none"
           THEN /\ raised' = r.raised
                /\ pc' = "raised"
                /\ UNCHANGED <<mol, pending, visited>>
           ELSE /\ mol' = r.mol
                /\ pending' = pending \ {sub_ds}
                /\ visited' = visited \cup {sub_ds}
                /\ UNCHANGED <<raised, pc>>
    /\ UNCHANGED <<mol0, call, missing_bonds, atom, val, ncalls>>

MarkReturn ==
    /\ pc = "loop"
    /\ pending = {}
    /\ call.name = "mark_aromatic_atoms"
    /\ pc' = "returned"
    /\ UNCHANGED <<mol, mol0, call, missing_bonds, pending, visited, raised,
                   atom, val, ncalls>>

\* line 564 of correct_aromatic_rings
CorrectEdges ==
    /\ pc = "loop"
    /\ pending = {}
    /\ call.name = "correct_aromatic_rings"
    /\ mol' = mark_aromatic_edges(mol)
    /\ pc' = "returned"
    /\ UNCHANGED <<mol0, call, missing_bonds, pending, visited, raised, atom,
                   val, ncalls>>

NextAromatic ==
    \/ MarkAromaticAtoms
    \/ CorrectStart
    \/ MarkNext
    \/ MarkReturn
    \/ CorrectEdges

SpecAromatic == InitAromatic /\ [][NextAromatic]_vars

-----------------------------------------------------------------------------
(* The claims.                                                             *)

\* C1 (as claimed, checked under Spec): after fill_valence with its default
\* settings, has_default_h_count is true of every atom that had no 'hcount'
\* before the call.
C1_FillValenceGivesDefaultHcount ==
    (/\ pc = "returned"
     /\ call.name = "fill_valence"
     /\ call.respect_hcount
     /\ call.respect_bond_order)
    => \A n \in Nodes(mol0) :
         "hcount" \notin DOMAIN mol0.nodes[n] => has_default_h_count(mol, n, TRUE)

\* The delocalization graph of mark_aromatic_atoms(m, atoms): the subgraph
\* induced by the atoms of `atoms` that are wildcards or miss a bond
Eligible(m, n) ==
    \/ "element" \notin DOMAIN m.nodes[n]
    \/ m.nodes[n]["element"] = "*"
    \/ bonds_missing(m, n, TRUE) > 0

DelocalizationGraph(m, atoms) == subgraph(m, {n \in atoms : Eligible(m, n)})

HasPerfectMatching(g) ==
    \E es \in SUBSET Edges(g) : IsMatching(es) /\ UNION es = Nodes(g)

\* C2 (checked under SpecAromatic): once mark_aromatic_atoms has ended, it has
\* raised the kekulization error if and only if some connected component of the
\* delocalization graph has no perfect matching; a component with an odd number
\* of atoms always makes it raise.
C2_ErrorIffNoPerfectMatching ==
    pc \in {"returned", "raised"}
    => LET comps == connected_components(DelocalizationGraph(mol0, call.atoms))
       IN  /\ (raised = "SyntaxError")
                <=> \E c \in comps : ~ HasPerfectMatching(subgraph(mol0, c))
           /\ (\E c \in comps : Cardinality(c) % 2 = 1) => raised = "SyntaxError"

\* C2, witness: the call raised on a molecule whose delocalization graph is a
\* ring of five atoms.
C2_Witness ==
    /\ pc = "raised"
    /\ raised = "SyntaxError"
    /\ LET g == DelocalizationGraph(mol0, call.atoms)
       IN  /\ Cardinality(Nodes(g)) = 5
           /\ connected_components(g) = {Nodes(g)}
           /\ \A n \in Nodes(g) : Cardinality(Neighbors(g, n)) = 2

\* A hydrogen that remove_explicit_hydrogens removes: element H, no charge, no
\* isotope, no class, one neighbour that is no hydrogen, bound by a single bond
SimpleHydrogen(m, n) ==
    /\ Get(m.nodes[n], "element", "") = "H"
    /\ Get(m.nodes[n], "charge", 0) = 0
    /\ "isotope" \notin DOMAIN m.nodes[n]
    /\ Get(m.nodes[n], "class", 0) = 0
    /\ \E x \in Nodes(m) :
         /\ Neighbors(m, n) = {x}
         /\ Get(m.nodes[x], "element", "") # "H"
         /\ EdgeOrder(m, {n, x}) = 2

\* The molecule m with every atom's hcount present, 0 where it was absent
WithHcounts(m) ==
    [m EXCEPT !.nodes =
       [n \in Nodes(m) |-> Put(m.nodes[n], "hcount", Get(m.nodes[n], "hcount", 0))]]

\* The data model's invariant: no hydrogen carries a positive hcount
NoHydrogenHasHcount(m) ==
    \A n \in Nodes(m) :
      Get(m.nodes[n], "element", "") = "H" => Get(m.nodes[n], "hcount", 0) = 0

\* C3 (as claimed, checked under SpecHydrogens): add_explicit_hydrogens followed
\* by remove_explicit_hydrogens leaves the atoms and bonds the molecule had and
\* every atom's original hcount (0 where it had none).  Stated of the molecules
\* that satisfy the data model's invariant.
C3_RoundTripAnyMolecule ==
    (pc = "removed" /\ NoHydrogenHasHcount(mol0)) => mol = WithHcounts(mol0)

\* C3 (as amended, checked under SpecHydrogens): the round trip restores the
\* atoms, the bonds and the hcounts of every molecule that holds no simple
\* explicit hydrogen and no hydrogen with a positive hcount.
C3_RoundTripWithoutSimpleHydrogens ==
    (/\ pc = "removed"
     /\ NoHydrogenHasHcount(mol0)
     /\ \A n \in Nodes(mol0) : ~ SimpleHydrogen(mol0, n))
    => mol = WithHcounts(mol0)

\* C3, witness: a round trip that is over, of a molecule in the amended
\* claim's scope, in which hydrogens were added to two atoms.
C3_Witness ==
    /\ pc = "removed"
    /\ NoHydrogenHasHcount(mol0)
    /\ \A n \in Nodes(mol0) : ~ SimpleHydrogen(mol0, n)
    /\ Cardinality({n \in Nodes(mol0) : Get(mol0.nodes[n], "hcount", 0) > 0}) = 2
    /\ Edges(mol0) # {}

IsAscending(vs) == \A i \in 1..(Len(vs) - 1) : vs[i] < vs[i + 1]

\* C4 (as claimed, checked under SpecValence): for every element of the table,
\* the wildcard and every charge of the range, a call of valence that does not
\* raise the too-many-electrons error returns a non-empty, strictly ascending
\* list of non-negative integers.
C4_ValenceListWellFormed ==
    (pc = "done" /\ val.raised # "ValueError")
    => /\ val.raised = "none"
       /\ Len(val.val) >= 1
       /\ IsAscending(val.val)
       /\ \A i \in 1..Len(val.val) : val.val[i] >= 0

\* C5 (as claimed, checked under Spec): in every state reached by the core
\* operations from a molecule in which no hydrogen has a positive hcount, no
\* atom of element H carries a positive hcount.
C5_NoHydrogenCarriesHydrogens ==
    \A n \in Nodes(mol) :
      Get(mol.nodes[n], "element", "*") = "H" => Get(mol.nodes[n], "hcount", 0) <= 0

\* The bonds the call has changed
ChangedBonds == {e \in Edges(mol0) : mol.edges[e] # mol0.edges[e]}

\* C6 (as claimed, checked under SpecAromatic): when the kekulization error is
\* raised, the call has set no atom aromatic and has changed no bond order to 2.
C6_NoAssignmentOnError ==
    pc = "raised"
    => /\ \A n \in Nodes(mol) : mol.nodes[n]["aromatic"] = FALSE
       /\ \A e \in ChangedBonds : EdgeOrder(mol, e) # 4

\* C6 (as amended, checked under SpecAromatic): when the kekulization error is
\* raised, every atom outside the components processed before the failing one
\* is aromatic=false and every bond outside them is unchanged; the components
\* processed before keep what the call assigned them.
C6_AssignmentOnlyInProcessedComponents ==
    pc = "raised"
    => /\ \A n \in Nodes(mol) \ UNION visited : mol.nodes[n]["aromatic"] = FALSE
       /\ \A e \in ChangedBonds : \E c \in visited : e \subseteq c
       /\ Nodes(mol) = Nodes(mol0) /\ Edges(mol) = Edges(mol0)

\* C6, witness: the error is raised after a component with a cycle has been
\* processed and its atoms set aromatic.
C6_Witness ==
    /\ pc = "raised"
    /\ \E c \in visited : \E n \in c : mol.nodes[n]["aromatic"] = TRUE

\* C7 (as claimed, checked under SpecIncrement): an iteration of the loop of
\* increment_bond_orders on a bond whose order is not 1.5 sets the order to
\* min(current_order + min(missing[u], missing[v]), max_bond_order) and takes
\* the applied increase, new_order - current_order, from both budgets.
C7_DeductsAppliedIncrease ==
    [][(pc = "loop" /\ pc' = "loop" /\ call.name = "increment_bond_orders")
       => \A e \in visited' \ visited :
            LET current_order == EdgeOrder(mol, e)
                edge_missing == MinOf({missing_bonds[x] : x \in e})
            IN  current_order # 3
                => /\ EdgeOrder(mol', e)
                        = Min2(current_order + 2 * edge_missing,
                               2 * call.max_bond_order)
                   /\ \A x \in e :
                        2 * (missing_bonds[x] - missing_bonds'[x])
                          = EdgeOrder(mol', e) - current_order]_vars

\* C8 (as claimed, checked under SpecEdges): after mark_aromatic_edges a bond is
\* set to order 1.5 exactly when both its atoms are aromatic, an atom without
\* the attribute counting as not aromatic; any other bond gets order 1 when it
\* had no order and keeps its order when it had one.
C8_AromaticEdgesIffBothAromatic ==
    pc = "returned"
    => \A e \in Edges(mol0) :
         IF \A n \in e : Get(mol0.nodes[n], "aromatic", FALSE)
         THEN mol.edges[e] = Put(mol0.edges[e], "order", 3)
         ELSE IF "order" \notin DOMAIN mol0.edges[e]
         THEN mol.edges[e] = Put(mol0.edges[e], "order", 2)
         ELSE mol.edges[e] = mol0.edges[e]

\* Whether the node n lies on a cycle of the graph g: one of its bonds can be
\* removed without cutting it from that bond's other end
OnCycle(g, n) ==
    \E e \in IncidentEdges(g, n) : e \subseteq Reach({n}, Edges(g) \ {e})

\* C9 (checked under SpecAromatic): after a successful mark_aromatic_atoms an
\* atom is aromatic=true if and only if it is in `atoms`, was eligible when the
\* call started and lies on a cycle of the delocalization graph; every other
\* atom is aromatic=false.
C9_AromaticIffOnDelocalizedCycle ==
    pc = "returned"
    => \A n \in Nodes(mol) :
         /\ "aromatic" \in DOMAIN mol.nodes[n]
         /\ mol.nodes[n]["aromatic"]
              = (/\ n \in call.atoms
                 /\ Eligible(mol0, n)
                 /\ n \in Nodes(DelocalizationGraph(mol0, call.atoms))
                 /\ OnCycle(DelocalizationGraph(mol0, call.atoms), n))

\* C9, witness: a successful call that left an aromatic atom, an eligible chain
\* atom that is not aromatic and a pruned atom whose aromatic was true before.
C9_Witness ==
    /\ pc = "returned"
    /\ call.name = "mark_aromatic_atoms"
    /\ \E n \in Nodes(mol) : mol.nodes[n]["aromatic"] = TRUE
    /\ \E n \in call.atoms : Eligible(mol0, n) /\ mol.nodes[n]["aromatic"] = FALSE
    /\ \E n \in call.atoms : ~ Eligible(mol0, n) /\ mol0.nodes[n]["aromatic"] = TRUE

\* C10 (as claimed, checked under Spec): increment_bond_orders, and fill_valence
\* with respect_bond_order=False, leave every bond with an order at least the
\* one it had, and every bond of order 1.5 as it was.
C10_BondOrdersNeverLowered ==
    (/\ pc = "returned"
     /\ \/ call.name = "increment_bond_orders"
        \/ call.name = "fill_valence" /\ ~ call.respect_bond_order)
    => \A e \in Edges(mol0) :
         /\ EdgeOrder(mol, e) >= EdgeOrder(mol0, e)
         /\ EdgeOrder(mol0, e) = 3 => mol.edges[e] = mol0.edges[e]

=============================================================================
